---- MODULE Spec2Model ----
(***************************************************************************)
(* Model of the NX external scanner (crates/nx-syntax/src/scanner.c).      *)
(*                                                                         *)
(* Characters are their code points, end of input is the lookahead 0.      *)
(* The lexer is the tree-sitter TSLexer: the struct the scanner copies     *)
(* with `TSLexer saved = *lexer` holds `lookahead` and `result_symbol`     *)
(* (and function pointers); the read position and the marked token end     *)
(* live behind the pointer, in the runtime.  The model keeps the four in   *)
(* one record and `Restore` copies back only the two struct fields.        *)
(***************************************************************************)
EXTENDS Integers, Sequences, FiniteSets, TLC

\* ---------------------------------------------------------------- bounds
MaxLen == 3
MaxReplayLen == 2

\* ------------------------------------------------------- program constants
TEXT_CHUNK == 0
EMBED_TEXT_CHUNK == 1
ENTITY == 2
ESCAPED_LBRACE == 3
ESCAPED_RBRACE == 4
ESCAPED_AT == 5
TokenType == {TEXT_CHUNK, EMBED_TEXT_CHUNK, ENTITY, ESCAPED_LBRACE, ESCAPED_RBRACE, ESCAPED_AT}

EOF == 0
BACKSLASH == 92
LBRACE == 123
RBRACE == 125
AT == 64
AMP == 38
HASH == 35
SEMI == 59
LT == 60
LOWER_X == 120
UPPER_X == 88
DIGIT_0 == 48
DIGIT_1 == DIGIT_0 + 1
DIGIT_9 == 57
LOWER_A == 97
LOWER_F == 102
LOWER_O == LOWER_A + 14
LOWER_Z == 122
UPPER_A == 65
UPPER_F == 70
UPPER_Z == 90

\* The payload of the scanner: create returns NULL.
NULL == 0
\* The marked token end before any mark_end of the call.
Undefined == -1

VARIABLES input, valid_symbols, start, lexer, has_content, pc, ret, payload, memo

vars == <<input, valid_symbols, start, lexer, has_content, pc, ret, payload, memo>>

\* ------------------------------------------------------------------ inputs
Alphabet == {BACKSLASH, LBRACE, RBRACE, AT, AMP, HASH, DIGIT_1, LOWER_X, SEMI, LT}

WordsOver(A, n) == UNION {[1..k -> A] : k \in 0..n}

\* Longer inputs: the entity shapes, the right brace, the scenarios of the
\* specification (A, D and E shortened to the characters that matter).
Scenarios ==
  { <<AMP, HASH, DIGIT_1, SEMI>>,
    <<AMP, HASH, DIGIT_1, DIGIT_9, SEMI, LOWER_X>>,
    <<AMP, HASH, LOWER_X, LOWER_A, SEMI>>,
    <<AMP, HASH, UPPER_X, DIGIT_1, LOWER_A, SEMI>>,
    <<AMP, HASH, LOWER_X, SEMI>>,
    <<AMP, HASH, LOWER_X, LOWER_O, SEMI>>,
    <<AMP, HASH, LOWER_A, SEMI>>,
    <<AMP, HASH, SEMI>>,
    <<AMP, HASH>>,
    <<AMP, LOWER_X, DIGIT_1, SEMI>>,
    <<AMP, DIGIT_9, SEMI>>,
    <<AMP, LOWER_A, LOWER_O, LOWER_O>>,
    <<LOWER_X, AMP, LOWER_A, SEMI, LOWER_X, LT>>,
    <<LOWER_X, AMP, HASH, LOWER_X, DIGIT_1, SEMI, LT>>,
    <<LOWER_X, AMP, HASH, DIGIT_1, SEMI>>,
    <<LOWER_A, BACKSLASH, LBRACE, LOWER_O>>,
    <<LOWER_A, BACKSLASH, RBRACE, LOWER_O>>,
    <<BACKSLASH, RBRACE>>,
    <<RBRACE>>,
    <<LOWER_X, RBRACE>>,
    <<AT, LBRACE, LOWER_X, RBRACE>>,
    <<LOWER_X, BACKSLASH, AT, LOWER_X>>,
    <<LOWER_X, AT, LOWER_X, AT, LBRACE>>,
    <<LOWER_X, AMP, LOWER_X, AMP, LOWER_X, SEMI>> }

Inputs == WordsOver(Alphabet, MaxLen) \cup Scenarios

\* The inputs of the replay specification, in which the host calls scan at
\* any position, in any order.
ReplayAlphabet == {BACKSLASH, LBRACE, AT, AMP, LOWER_X, SEMI, LT}

ReplayScenarios ==
  { <<LOWER_X, AMP, LOWER_X, SEMI, LT>>,
    <<AMP, HASH, DIGIT_1, SEMI>>,
    <<LOWER_X, BACKSLASH, RBRACE, LOWER_X>> }

ReplayInputs == WordsOver(ReplayAlphabet, MaxReplayLen) \cup ReplayScenarios

\* ------------------------------------------------------------------- lexer
\* The character at 0-based position p, 0 at and after the end of input.
CharAt(p) == IF p < Len(input) THEN input[p + 1] ELSE EOF

\* The lexer the host hands to a call at position p (ts_lexer_start): the
\* lookahead is the character at p, no token end is marked, result_symbol 0.
LexerAt(p) ==
  [lookahead |-> CharAt(p), result_symbol |-> TEXT_CHUNK, pos |-> p, token_end |-> Undefined]

\* lexer->advance(lexer, false): consume the character at the read position
\* and load the next one.  At end of input the runtime returns at once: the
\* position and the lookahead field stay as they are.
Advance(L) ==
  IF L.pos >= Len(input) THEN L
  ELSE [L EXCEPT !.pos = L.pos + 1, !.lookahead = CharAt(L.pos + 1)]

\* lexer->mark_end(lexer): the token ends at the read position.
MarkEnd(L) == [L EXCEPT !.token_end = L.pos]

\* lexer->result_symbol = k
SetResult(L, k) == [L EXCEPT !.result_symbol = k]

\* *lexer = saved: the TSLexer struct is copied back, which holds lookahead
\* and result_symbol; the read position and the marked end are not in it.
Restore(L, saved) ==
  [L EXCEPT !.lookahead = saved.lookahead, !.result_symbol = saved.result_symbol]

\* ------------------------------------------------------- character classes
IsDigit(c) == c >= DIGIT_0 /\ c <= DIGIT_9

IsHexDigit(c) ==
  \/ (c >= DIGIT_0 /\ c <= DIGIT_9)
  \/ (c >= LOWER_A /\ c <= LOWER_F)
  \/ (c >= UPPER_A /\ c <= UPPER_F)

IsLetter(c) ==
  \/ (c >= LOWER_A /\ c <= LOWER_Z)
  \/ (c >= UPPER_A /\ c <= UPPER_Z)

IsAlnum(c) == IsLetter(c) \/ IsDigit(c)

\* ---------------------------------------------------------- is_entity_start
\* The result of the test and the lexer it leaves behind.
is_entity_start(L) ==
  IF L.lookahead # AMP THEN [ok |-> FALSE, L |-> L]
  ELSE
    LET L1 == Advance(L) IN
    IF L1.lookahead = HASH THEN
      LET L2 == Advance(L1) IN
      IF L2.lookahead = LOWER_X \/ L2.lookahead = UPPER_X THEN
        LET L3 == Advance(L2) IN [ok |-> IsHexDigit(L3.lookahead), L |-> L3]
      ELSE [ok |-> IsDigit(L2.lookahead), L |-> L2]
    ELSE [ok |-> IsLetter(L1.lookahead), L |-> L1]

\* -------------------------------------------------------------- scan_entity
RECURSIVE SkipHexDigits(_)
SkipHexDigits(L) ==
  IF IsHexDigit(L.lookahead) THEN SkipHexDigits(Advance(L)) ELSE L

RECURSIVE SkipDigits(_)
SkipDigits(L) ==
  IF IsDigit(L.lookahead) THEN SkipDigits(Advance(L)) ELSE L

RECURSIVE SkipAlnum(_)
SkipAlnum(L) ==
  IF IsAlnum(L.lookahead) THEN SkipAlnum(Advance(L)) ELSE L

\* Mutant of EntityEnd: the terminating semicolon is not required.
EntityEnd_NoSemicolon(L) == [ok |-> TRUE, L |-> Advance(L)]

\* Must end with semicolon (lines 131-137).
EntityEnd(L) ==
  IF L.lookahead = SEMI THEN [ok |-> TRUE, L |-> Advance(L)]
  ELSE [ok |-> FALSE, L |-> L]

scan_entity(L) ==
  IF L.lookahead # AMP THEN [ok |-> FALSE, L |-> L]
  ELSE
    LET L1 == Advance(L) IN
    IF L1.lookahead = HASH THEN
      LET L2 == Advance(L1) IN
      IF L2.lookahead = LOWER_X \/ L2.lookahead = UPPER_X THEN
        LET L3 == Advance(L2) IN
        IF ~IsHexDigit(L3.lookahead) THEN [ok |-> FALSE, L |-> L3]
        ELSE EntityEnd(SkipHexDigits(L3))
      ELSE
        IF ~IsDigit(L2.lookahead) THEN [ok |-> FALSE, L |-> L2]
        ELSE EntityEnd(SkipDigits(L2))
    ELSE
      IF ~IsLetter(L1.lookahead) THEN [ok |-> FALSE, L |-> L1]
      ELSE EntityEnd(SkipAlnum(L1))

\* --------------------------------------------------------------------- scan
allow_any_chunk(v) == v[TEXT_CHUNK] \/ v[EMBED_TEXT_CHUNK]

\* Mutant of chunk_kind: with both chunk kinds legal, text mode is preferred.
chunk_kind_TextFirst(v) == IF v[TEXT_CHUNK] THEN TEXT_CHUNK ELSE EMBED_TEXT_CHUNK

chunk_kind(v) == IF v[EMBED_TEXT_CHUNK] THEN EMBED_TEXT_CHUNK ELSE TEXT_CHUNK

embed_mode(v) == chunk_kind(v) = EMBED_TEXT_CHUNK

\* An escape token: the second character is consumed and the end marked.
EmitEscape(L, k) == [L |-> SetResult(MarkEnd(Advance(L)), k), out |-> "match"]

\* Mutant of ScanEscape: the escapes are emitted without consulting
\* valid_symbols.
ScanEscape_Unchecked(L, v) ==
  LET L1 == Advance(L) IN
  IF L1.lookahead = LBRACE THEN EmitEscape(L1, ESCAPED_LBRACE)
  ELSE IF L1.lookahead = RBRACE THEN EmitEscape(L1, ESCAPED_RBRACE)
  ELSE IF L1.lookahead = AT THEN EmitEscape(L1, ESCAPED_AT)
  ELSE IF allow_any_chunk(v) THEN
    [L |-> SetResult(MarkEnd(L1), chunk_kind(v)), out |-> "match"]
  ELSE [L |-> L1, out |-> "nomatch"]

\* Lines 178-217: the lookahead is a backslash.
ScanEscape(L, v) ==
  LET L1 == Advance(L) IN
  IF L1.lookahead = LBRACE THEN
    IF v[ESCAPED_LBRACE] THEN EmitEscape(L1, ESCAPED_LBRACE)
    ELSE [L |-> L1, out |-> "nomatch"]
  ELSE IF L1.lookahead = RBRACE THEN
    IF v[ESCAPED_RBRACE] THEN EmitEscape(L1, ESCAPED_RBRACE)
    ELSE [L |-> L1, out |-> "nomatch"]
  ELSE IF L1.lookahead = AT /\ v[ESCAPED_AT] THEN EmitEscape(L1, ESCAPED_AT)
  ELSE IF allow_any_chunk(v) THEN
    [L |-> SetResult(MarkEnd(L1), chunk_kind(v)), out |-> "match"]
  ELSE [L |-> L1, out |-> "nomatch"]

\* Mutant of ScanEntityOrChunk: the entity is attempted only when no chunk
\* kind is legal (the chunk takes priority over the entity).
ScanEntityOrChunk_ChunkFirst(L, v) ==
  LET E == IF L.lookahead = AMP /\ v[ENTITY] /\ ~allow_any_chunk(v) THEN scan_entity(L)
           ELSE [ok |-> FALSE, L |-> L] IN
  IF E.ok THEN [L |-> SetResult(E.L, ENTITY), out |-> "match"]
  ELSE IF ~allow_any_chunk(v) THEN [L |-> E.L, out |-> "nomatch"]
  ELSE [L |-> E.L, out |-> "loop"]

\* Lines 219-231: the entity attempt, then the test that a chunk kind is legal.
\* A failed scan_entity leaves the lexer where it stopped.
ScanEntityOrChunk(L, v) ==
  LET E == IF L.lookahead = AMP /\ v[ENTITY] THEN scan_entity(L)
           ELSE [ok |-> FALSE, L |-> L] IN
  IF E.ok THEN [L |-> SetResult(E.L, ENTITY), out |-> "match"]
  ELSE IF ~allow_any_chunk(v) THEN [L |-> E.L, out |-> "nomatch"]
  ELSE [L |-> E.L, out |-> "loop"]

\* Lines 166-234: the call up to the chunk loop.
ScanHead(L, v) ==
  IF L.lookahead = BACKSLASH THEN ScanEscape(L, v) ELSE ScanEntityOrChunk(L, v)

\* Mutant of ChunkReturn: a chunk is returned whether or not it has content.
ChunkReturn_AlwaysMatch(L, hc, v) ==
  [L |-> SetResult(L, chunk_kind(v)), has_content |-> hc, out |-> "match"]

\* `if (has_content) { result_symbol = chunk_kind; return true; } return false;`
\* (lines 250-254, 270-274, 288-292, 304-309).
ChunkReturn(L, hc, v) ==
  IF hc THEN [L |-> SetResult(L, chunk_kind(v)), has_content |-> hc, out |-> "match"]
  ELSE [L |-> L, has_content |-> hc, out |-> "nomatch"]

\* Lines 244-257: in embed mode, the test for the interpolation opener "@{".
AtOpenerTest(L, v) ==
  IF embed_mode(v) /\ L.lookahead = AT THEN
    LET L1 == Advance(L) IN
    [stop |-> L1.lookahead = LBRACE, L |-> Restore(L1, L)]
  ELSE [stop |-> FALSE, L |-> L]

\* Lines 264-279: a backslash inside the chunk loop.
ChunkBackslash(L, hc, v) ==
  LET L1 == Advance(MarkEnd(L)) IN
  IF L1.lookahead = LBRACE \/ L1.lookahead = RBRACE
       \/ (embed_mode(v) /\ L1.lookahead = AT)
  THEN ChunkReturn(L1, hc, v)
  ELSE [L |-> L1, has_content |-> TRUE, out |-> "loop"]

\* Mutant of EntityStartTest: the entity start is tested whether or not
\* Entity is legal.
EntityStartTest_Unchecked(L, v) ==
  IF L.lookahead = AMP THEN
    LET T == is_entity_start(L) IN [stop |-> T.ok, L |-> Restore(T.L, L)]
  ELSE [stop |-> FALSE, L |-> L]

\* Lines 281-296: the test for an entity start inside the chunk loop.
EntityStartTest(L, v) ==
  IF L.lookahead = AMP /\ v[ENTITY] THEN
    LET T == is_entity_start(L) IN [stop |-> T.ok, L |-> Restore(T.L, L)]
  ELSE [stop |-> FALSE, L |-> L]

\* Lines 298-301: include this character in the chunk.
ChunkInclude(L) == [L |-> MarkEnd(Advance(L)), has_content |-> TRUE, out |-> "loop"]

\* Lines 237-309: the loop condition, one pass of the body, and the return
\* after the loop when the pass leaves it.
ChunkIteration(L, hc, v) ==
  IF L.lookahead = EOF THEN ChunkReturn(L, hc, v)
  ELSE IF L.lookahead = LT THEN ChunkReturn(L, hc, v)
  ELSE
    LET A == AtOpenerTest(L, v) IN
    IF A.stop THEN ChunkReturn(A.L, hc, v)
    ELSE IF A.L.lookahead = LBRACE \/ A.L.lookahead = RBRACE THEN ChunkReturn(A.L, hc, v)
    ELSE IF A.L.lookahead = BACKSLASH THEN ChunkBackslash(A.L, hc, v)
    ELSE
      LET B == EntityStartTest(A.L, v) IN
      IF B.stop THEN ChunkReturn(B.L, hc, v)
      ELSE ChunkInclude(B.L)

\* ------------------------------------------------------------ the scanner
tree_sitter_nx_external_scanner_create == NULL

\* The number of bytes serialize writes.
tree_sitter_nx_external_scanner_serialize(p) == 0

\* The payload after deserialize of a buffer of the given length.
tree_sitter_nx_external_scanner_deserialize(p, length) == p

\* The end of the token the host records when scan returns true: the marked
\* end, or the read position when the call marked none.
TokenEnd == IF lexer.token_end = Undefined THEN lexer.pos ELSE lexer.token_end

\* What a finished call hands back.
Outcome ==
  IF ret = "match"
  THEN [ret |-> ret, kind |-> lexer.result_symbol, start |-> start, end |-> TokenEnd]
  ELSE [ret |-> ret, kind |-> -1, start |-> start, end |-> start]

\* The outcome of one earlier call, remembered by the replay
\* specification; `other` tells that a call at another position followed.
NoMemo == [ret |-> "none", kind |-> -1, start |-> -1, end |-> -1, other |-> FALSE]

Remembered(o) == [ret |-> o.ret, kind |-> o.kind, start |-> o.start, end |-> o.end, other |-> FALSE]

Forgotten(m) == [ret |-> m.ret, kind |-> m.kind, start |-> m.start, end |-> m.end]

Init ==
  /\ input \in Inputs
  /\ valid_symbols \in [TokenType -> BOOLEAN]
  /\ start = 0
  /\ lexer = LexerAt(0)
  /\ has_content = FALSE
  /\ pc = "entry"
  /\ ret = "none"
  /\ payload = tree_sitter_nx_external_scanner_create
  /\ memo = NoMemo

\* Mutant of ScanEntry: has_content keeps the value the previous call left
\* (a static instead of a local initialised at each call).
ScanEntry_KeepContent ==
  /\ pc = "entry"
  /\ LET R == ScanHead(lexer, valid_symbols) IN
       /\ lexer' = R.L
       /\ has_content' = has_content
       /\ pc' = IF R.out = "loop" THEN "chunk" ELSE "done"
       /\ ret' = IF R.out = "loop" THEN "none" ELSE R.out
  /\ UNCHANGED <<input, valid_symbols, start, payload, memo>>

\* The call from its entry to the chunk loop (or to its return).
ScanEntry ==
  /\ pc = "entry"
  /\ LET R == ScanHead(lexer, valid_symbols) IN
       /\ lexer' = R.L
       /\ has_content' = FALSE
       /\ pc' = IF R.out = "loop" THEN "chunk" ELSE "done"
       /\ ret' = IF R.out = "loop" THEN "none" ELSE R.out
  /\ UNCHANGED <<input, valid_symbols, start, payload, memo>>

\* One pass of the chunk loop.
ChunkLoop ==
  /\ pc = "chunk"
  /\ LET R == ChunkIteration(lexer, has_content, valid_symbols) IN
       /\ lexer' = R.L
       /\ has_content' = R.has_content
       /\ pc' = IF R.out = "loop" THEN "chunk" ELSE "done"
       /\ ret' = IF R.out = "loop" THEN "none" ELSE R.out
  /\ UNCHANGED <<input, valid_symbols, start, payload, memo>>

\* The host, after a token, calls scan again at the token's end with the
\* same legality set; the token just returned is remembered.
NextCall ==
  /\ pc = "done"
  /\ ret = "match"
  /\ start' = TokenEnd
  /\ lexer' = LexerAt(TokenEnd)
  /\ pc' = "entry"
  /\ ret' = "none"
  /\ memo' = Remembered(Outcome)
  /\ UNCHANGED <<input, valid_symbols, has_content, payload>>

Next == ScanEntry \/ ChunkLoop \/ NextCall

Spec == Init /\ [][Next]_vars

\* The replay specification: the host calls scan at any position of the
\* input, in any order (speculative and backtracking parses), with one
\* legality set, and restores the scanner from its serialized state before
\* each call.  The outcome of one earlier call is remembered.
InitReplay ==
  /\ input \in ReplayInputs
  /\ valid_symbols \in [TokenType -> BOOLEAN]
  /\ start \in 0..Len(input)
  /\ lexer = LexerAt(start)
  /\ has_content = FALSE
  /\ pc = "entry"
  /\ ret = "none"
  /\ payload = tree_sitter_nx_external_scanner_create
  /\ memo = NoMemo

CallAt(p) ==
  /\ pc = "done"
  /\ start' = p
  /\ lexer' = LexerAt(p)
  /\ pc' = "entry"
  /\ ret' = "none"
  /\ payload' = tree_sitter_nx_external_scanner_deserialize(
                   payload, tree_sitter_nx_external_scanner_serialize(payload))
  /\ UNCHANGED <<input, valid_symbols, has_content>>

\* The host calls again and the outcome of the finished call is remembered.
RememberAndCall ==
  /\ memo = NoMemo
  /\ memo' = Remembered(Outcome)
  /\ \E p \in 0..Len(input) : CallAt(p)

\* The host calls again and the memory stays.
CallAgain ==
  /\ \E p \in 0..Len(input) :
       /\ CallAt(p)
       /\ memo' = IF memo # NoMemo /\ p # memo.start
                  THEN [memo EXCEPT !.other = TRUE] ELSE memo

NextReplay == ScanEntry \/ ChunkLoop \/ RememberAndCall \/ CallAgain

SpecReplay == InitReplay /\ [][NextReplay]_vars

\* ------------------------------------------------------------ vocabulary
Done == pc = "done"

Matched == pc = "done" /\ ret = "match"

NoMatch == pc = "done" /\ ret = "nomatch"

TokenKind == lexer.result_symbol

ChunkKinds == {TEXT_CHUNK, EMBED_TEXT_CHUNK}

EscapeKinds == {ESCAPED_LBRACE, ESCAPED_RBRACE, ESCAPED_AT}

\* The three entity shapes of the grammar, on a sequence of characters.
IsNamedEntity(s) ==
  /\ Len(s) >= 3
  /\ s[1] = AMP
  /\ IsLetter(s[2])
  /\ \A i \in 3..(Len(s) - 1) : IsAlnum(s[i])
  /\ s[Len(s)] = SEMI

IsDecimalEntity(s) ==
  /\ Len(s) >= 4
  /\ s[1] = AMP
  /\ s[2] = HASH
  /\ \A i \in 3..(Len(s) - 1) : IsDigit(s[i])
  /\ s[Len(s)] = SEMI

IsHexEntity(s) ==
  /\ Len(s) >= 5
  /\ s[1] = AMP
  /\ s[2] = HASH
  /\ s[3] \in {LOWER_X, UPPER_X}
  /\ \A i \in 4..(Len(s) - 1) : IsHexDigit(s[i])
  /\ s[Len(s)] = SEMI

WellFormedEntity(s) == IsNamedEntity(s) \/ IsDecimalEntity(s) \/ IsHexEntity(s)

\* The characters of the input from position p up to, not including, e.
Span(p, e) == SubSeq(input, p + 1, e)

\* A well-formed entity occupies the positions p .. e-1 of the input.
EntityAt(p, e) == e <= Len(input) /\ WellFormedEntity(Span(p, e))

EntityStartsAt(p) == \E e \in (p + 3)..Len(input) : EntityAt(p, e)

\* ------------------------------------------------------------------ claims

\* C1: if scan returns a token, the kind of the token is a member of the
\* legality set of the call.
C1_EmittedKindIsLegal == Matched => valid_symbols[TokenKind]

\* C1 witness: a backslash followed by '@' with EscapedAt not legal, and the
\* call returned the fallback chunk.
C1_Witness ==
  /\ Matched
  /\ CharAt(start) = BACKSLASH
  /\ CharAt(start + 1) = AT
  /\ ~valid_symbols[ESCAPED_AT]
  /\ TokenKind \in ChunkKinds

\* C2: whenever scan returns no-match, the cursor is where it was before
\* the call.
C2_NoMatchConsumesNothing == NoMatch => lexer.pos = start

\* C3: at '&' with Entity and a chunk kind legal and no well-formed entity
\* at the cursor, scan returns a chunk token that starts with that '&'.
C3_FailedEntityBecomesChunk ==
  ( /\ Done
    /\ CharAt(start) = AMP
    /\ valid_symbols[ENTITY]
    /\ allow_any_chunk(valid_symbols)
    /\ ~EntityStartsAt(start) )
  => (Matched /\ TokenKind = chunk_kind(valid_symbols) /\ TokenEnd > start)

\* The stop conditions of a chunk at position p, each read as widely as
\* its wording allows (the escape characters of the mode whether or not the
\* escape kind is legal, a well-formed entity whether or not Entity is
\* legal), so that a position outside this set is outside the claim's too.
StopConditionAt(p) ==
  \/ p >= Len(input)
  \/ CharAt(p) \in {LT, LBRACE, RBRACE}
  \/ (CharAt(p) = BACKSLASH /\ CharAt(p + 1) \in {LBRACE, RBRACE, AT})
  \/ (CharAt(p) = AMP /\ EntityStartsAt(p))
  \/ (CharAt(p) = AT /\ CharAt(p + 1) = LBRACE)

\* C4: the position immediately after an emitted chunk is one of the listed
\* stop conditions.
C4_ChunkEndsAtStopCondition ==
  (Matched /\ TokenKind \in ChunkKinds) => StopConditionAt(TokenEnd)

\* An escape token can be emitted at position p.
EscapeEmittableAt(p) ==
  \/ (CharAt(p + 1) = LBRACE /\ valid_symbols[ESCAPED_LBRACE])
  \/ (CharAt(p + 1) = RBRACE /\ valid_symbols[ESCAPED_RBRACE])
  \/ (CharAt(p + 1) = AT /\ embed_mode(valid_symbols) /\ valid_symbols[ESCAPED_AT])

\* C5: at a backslash where no escape token is emitted, scan returns a chunk
\* token if a chunk kind is legal, and no-match only if none is.
C5_BackslashFallsBackToChunk ==
  (Done /\ CharAt(start) = BACKSLASH /\ ~EscapeEmittableAt(start))
  => /\ allow_any_chunk(valid_symbols) => (Matched /\ TokenKind \in ChunkKinds)
     /\ NoMatch => ~allow_any_chunk(valid_symbols)

\* C6: when scan returns a token, the cursor is at the committed end of the
\* token: every speculative advance has been undone.
C6_CursorAtTokenEnd == Matched => lexer.pos = TokenEnd

\* C7: a returned token is never of zero length.
C7_TokenNonEmpty == Matched => TokenEnd > start

\* C7 witness: a chunk whose only character accepted by the loop is a
\* backslash, marked before it was consumed (after a failed entity attempt).
C7_Witness ==
  /\ Matched
  /\ TokenKind \in ChunkKinds
  /\ CharAt(start) = AMP
  /\ CharAt(TokenEnd) = BACKSLASH
  /\ TokenEnd = start + 1
  /\ lexer.pos > TokenEnd

\* C8: an escape token spans exactly the backslash and its delimiter; an
\* Entity token spans at least 3 characters that form one of the three
\* shapes, from '&' to ';'.
C8_EscapeAndEntitySpans ==
  /\ (Matched /\ TokenKind \in EscapeKinds) =>
       /\ TokenEnd = start + 2
       /\ CharAt(start) = BACKSLASH
       /\ TokenKind = ESCAPED_LBRACE => CharAt(start + 1) = LBRACE
       /\ TokenKind = ESCAPED_RBRACE => CharAt(start + 1) = RBRACE
       /\ TokenKind = ESCAPED_AT => CharAt(start + 1) = AT
  /\ (Matched /\ TokenKind = ENTITY) =>
       /\ TokenEnd >= start + 3
       /\ CharAt(start) = AMP
       /\ CharAt(TokenEnd - 1) = SEMI
       /\ WellFormedEntity(Span(start, TokenEnd))

\* C8 witness: a hexadecimal entity was emitted after an earlier token.
C8_Witness ==
  /\ Matched
  /\ TokenKind = ENTITY
  /\ start > 0
  /\ IsHexEntity(Span(start, TokenEnd))

\* C9: with Entity legal and a well-formed entity at the cursor, scan emits
\* an Entity token that spans the whole entity, whether or not a chunk kind
\* is legal.
C9_EntityBeforeChunk ==
  (Done /\ valid_symbols[ENTITY] /\ EntityStartsAt(start))
  => /\ Matched
     /\ TokenKind = ENTITY
     /\ EntityAt(start, TokenEnd)

\* C9 witness: a well-formed entity at the cursor, Entity and a chunk kind
\* both legal, and the call has returned.
C9_Witness ==
  /\ Done
  /\ valid_symbols[ENTITY]
  /\ allow_any_chunk(valid_symbols)
  /\ EntityStartsAt(start)
  /\ start > 0

\* C10: a call with the same input, the same position and the same legality
\* set as an earlier call returns the same outcome (match or no-match, kind,
\* span), whatever calls were made in between; the scanner has no payload.
C10_SameCallSameOutcome ==
  /\ payload = NULL
  /\ (Done /\ memo # NoMemo /\ memo.start = start) => Outcome = Forgotten(memo)

\* C10 witness: a call is repeated at the position of a remembered call that
\* returned a chunk, after a call at another position.
C10_Witness ==
  /\ Done
  /\ memo.start = start
  /\ memo.ret = "match"
  /\ memo.kind \in ChunkKinds
  /\ memo.other

\* The interpolation opener "@{" stands at position p.
OpenerAt(p) == CharAt(p) = AT /\ CharAt(p + 1) = LBRACE

\* C11: in embed mode a call at "@{" returns no-match, no emitted embed
\* chunk reaches over the '@' of an opener, and a call at an '@' not followed
\* by '{' returns a chunk; in text mode the chunk scan never ends at '@'.
\* (The zero consumption of the no-match at "@{" is the statement of C2.)
C11_OpenerStopsEmbedOnly ==
  /\ (Done /\ valid_symbols[EMBED_TEXT_CHUNK] /\ OpenerAt(start)) => NoMatch
  /\ (Matched /\ TokenKind = EMBED_TEXT_CHUNK) =>
       \A p \in start..(TokenEnd - 1) : ~OpenerAt(p)
  /\ (Done /\ valid_symbols[EMBED_TEXT_CHUNK] /\ CharAt(start) = AT /\ ~OpenerAt(start)) =>
       (Matched /\ TokenKind = EMBED_TEXT_CHUNK /\ TokenEnd > start)
  /\ (Matched /\ TokenKind = TEXT_CHUNK /\ CharAt(start) # BACKSLASH) =>
       CharAt(TokenEnd) # AT

\* C12: an EscapedAt token is returned only in embed mode (EmbedTextChunk
\* legal), at a backslash followed by '@', with EscapedAt legal.
C12_EscapedAtOnlyInEmbedMode ==
  (Matched /\ TokenKind = ESCAPED_AT) =>
    /\ valid_symbols[EMBED_TEXT_CHUNK]
    /\ valid_symbols[ESCAPED_AT]
    /\ CharAt(start) = BACKSLASH
    /\ CharAt(start + 1) = AT

BothChunkKindsLegal == valid_symbols[TEXT_CHUNK] /\ valid_symbols[EMBED_TEXT_CHUNK]

\* C13 as stated: in a call where TextChunk and EmbedTextChunk are both
\* legal, no chunk token of either kind is emitted (neither mode is silently
\* preferred).
C13_NoSilentModePreference ==
  (Matched /\ BothChunkKindsLegal) => TokenKind \notin ChunkKinds

\* C13 as amended: with both chunk kinds legal the scanner prefers embed
\* mode: an emitted chunk is an EmbedTextChunk, never a TextChunk, and the
\* embed-mode stop rule for the opener "@{" applies.
C13_EmbedModePreferred ==
  /\ (Matched /\ BothChunkKindsLegal /\ TokenKind \in ChunkKinds) =>
       TokenKind = EMBED_TEXT_CHUNK
  /\ (Done /\ BothChunkKindsLegal /\ OpenerAt(start)) => NoMatch

\* C13 witness: both chunk kinds legal, and an EmbedTextChunk was returned
\* by the chunk loop that ends at an interpolation opener.
C13_Witness ==
  /\ Matched
  /\ BothChunkKindsLegal
  /\ TokenKind = EMBED_TEXT_CHUNK
  /\ CharAt(start) # BACKSLASH
  /\ OpenerAt(TokenEnd)

\* The token returned by the previous call of the driver was a chunk, and
\* this call started at its end.
PreviousWasChunk == memo.ret = "match" /\ memo.kind \in ChunkKinds /\ memo.end = start

\* C14: under the driver (a fixed legality set with a chunk kind, each call
\* at the end of the previous token) the token after a chunk is not a chunk.
C14_NoTwoConsecutiveChunks ==
  (Matched /\ allow_any_chunk(valid_symbols) /\ PreviousWasChunk) =>
    TokenKind \notin ChunkKinds

\* A structural boundary stands at position p of a chunk that ends at e,
\* each boundary read as narrowly as its wording allows (an escape only
\* when its kind is legal, an entity only when it lies inside the chunk).
BoundaryAt(p, e) ==
  \/ CharAt(p) \in {LT, LBRACE, RBRACE}
  \/ (CharAt(p) = BACKSLASH /\ EscapeEmittableAt(p))
  \/ (valid_symbols[ENTITY] /\ \E q \in (p + 3)..e : EntityAt(p, q))
  \/ (TokenKind = EMBED_TEXT_CHUNK /\ OpenerAt(p))

\* C15: the span of an emitted chunk contains no structural boundary.
C15_ChunkContainsNoBoundary ==
  (Matched /\ TokenKind \in ChunkKinds) =>
    \A p \in start..(TokenEnd - 1) : ~BoundaryAt(p, TokenEnd)

\* C16: every pass of the chunk loop returns (or breaks and returns), or
\* strictly advances the cursor, and never moves it back; so a call cannot
\* loop forever on a finite input.
C16_EachPassReturnsOrAdvances ==
  pc = "chunk" =>
    LET R == ChunkIteration(lexer, has_content, valid_symbols) IN
      /\ R.L.pos >= lexer.pos
      /\ R.out # "loop" \/ R.L.pos > lexer.pos

\* C17: with Entity not legal, a call at '&' makes no entity attempt and,
\* with a chunk kind legal, returns a chunk that starts with the '&'; a pass
\* of the chunk loop at '&' consumes exactly that character as text (no
\* lookahead); and the chunk scan never ends at an '&'.
C17_AmpersandIsTextWithoutEntity ==
  ~valid_symbols[ENTITY] =>
    /\ (pc = "entry" /\ lexer.lookahead = AMP) =>
         ScanHead(lexer, valid_symbols).L = lexer
    /\ (pc = "chunk" /\ lexer.lookahead = AMP) =>
         LET R == ChunkIteration(lexer, has_content, valid_symbols) IN
           /\ R.out = "loop"
           /\ R.has_content
           /\ R.L.pos = lexer.pos + 1
           /\ R.L.token_end = lexer.pos + 1
    /\ (Done /\ allow_any_chunk(valid_symbols) /\ CharAt(start) = AMP) =>
         /\ Matched
         /\ TokenKind = chunk_kind(valid_symbols)
         /\ TokenEnd > start
    /\ (Matched /\ TokenKind \in ChunkKinds /\ CharAt(start) # BACKSLASH) =>
         CharAt(TokenEnd) # AMP

\* C17 witness: Entity is not legal and the chunk returned starts with
\* the '&' of a well-formed entity and contains the whole of it.
C17_Witness ==
  /\ Matched
  /\ ~valid_symbols[ENTITY]
  /\ TokenKind \in ChunkKinds
  /\ CharAt(start) = AMP
  /\ \E q \in (start + 3)..TokenEnd : EntityAt(start, q)

====
